---- MODULE Spec2Model ----
(***************************************************************************)
(* A model of src/VSM.ts: VectorizedDocument, VectorSpaceModel.query,      *)
(* WordMappings, WeighingSchemas.tfidf, SimilaritySchemas.cosineSimilarity *)
(* and VectorOperations.                                                   *)
(*                                                                         *)
(* Representation.                                                         *)
(*  - A JavaScript number is a record: Fin(v) is the finite value v/Scale  *)
(*    (fixed point), NaN is NaN, Inf(s) is +/-Infinity.                    *)
(*  - A string is a sequence of one-character strings; an absent content   *)
(*    (undefined) is UndefinedContent.                                     *)
(*  - A Map<string, number> is a function whose DOMAIN is its key set.     *)
(*  - A Set<string> is a duplicate-free sequence (insertion order).        *)
(*  - A metadata Map is an address of the heap; address 0 is undefined.    *)
(*    heap[a].child is the address of an object stored inside a (0: none). *)
(*  - Arithmetic is that of the fixed-point values: a product, quotient,   *)
(*    square root or logarithm is rounded to 1/Scale; 0, NaN and the order *)
(*    of values at least 1/Scale apart are kept.                           *)
(*  - Array.prototype.sort with a comparator that is not consistent (a NaN *)
(*    score) leaves an implementation-defined order: any order may result. *)
(*  - One query call runs as a sequence of steps, pc naming the next one;  *)
(*    nothing else runs until the call is over.                            *)
(***************************************************************************)
EXTENDS Integers, Sequences, FiniteSets, TLC

\* Largest collection a caller passes to query.
MaxDocs == 2
\* Largest absolute integer weight of the vectors handed to dotProduct alone.
MaxWeight == 1

\* Fixed-point resolution of a number: Fin(v) stands for v / Scale.
Scale == 1000

-----------------------------------------------------------------------------
(* Numbers *)

Fin(v) == [k |-> "fin", v |-> v]
NaN == [k |-> "nan", v |-> 0]
Inf(s) == [k |-> "inf", v |-> s]
FromInt(n) == Fin(n * Scale)
Zero == Fin(0)

Sign(v) == IF v > 0 THEN 1 ELSE IF v < 0 THEN -1 ELSE 0

\* x + y
Add(x, y) ==
    IF x.k = "nan" \/ y.k = "nan" THEN NaN
    ELSE IF x.k = "inf" /\ y.k = "inf" THEN (IF x.v = y.v THEN x ELSE NaN)
    ELSE IF x.k = "inf" THEN x
    ELSE IF y.k = "inf" THEN y
    ELSE Fin(x.v + y.v)

\* x * y
Mul(x, y) ==
    IF x.k = "nan" \/ y.k = "nan" THEN NaN
    ELSE IF x.k = "inf" \/ y.k = "inf"
         THEN (IF x.v = 0 \/ y.v = 0 THEN NaN ELSE Inf(Sign(x.v) * Sign(y.v)))
    ELSE Fin((x.v * y.v) \div Scale)

\* x / y
Div(x, y) ==
    IF x.k = "nan" \/ y.k = "nan" THEN NaN
    ELSE IF x.k = "inf" THEN (IF y.k = "inf" THEN NaN
                              ELSE Inf(x.v * (IF y.v < 0 THEN -1 ELSE 1)))
    ELSE IF y.k = "inf" THEN Zero
    ELSE IF y.v = 0 THEN (IF x.v = 0 THEN NaN ELSE Inf(Sign(x.v)))
    ELSE Fin((x.v * Scale) \div y.v)

\* The largest r in lo..hi with r * r <= n.
RECURSIVE ISqrt(_, _, _)
ISqrt(n, lo, hi) ==
    IF lo >= hi THEN lo
    ELSE LET mid == (lo + hi + 1) \div 2
         IN IF mid * mid <= n THEN ISqrt(n, mid, hi) ELSE ISqrt(n, lo, mid - 1)

\* Math.sqrt(x)
Sqrt(x) ==
    IF x.k = "nan" THEN NaN
    ELSE IF x.k = "inf" THEN (IF x.v > 0 THEN x ELSE NaN)
    ELSE IF x.v < 0 THEN NaN
    ELSE Fin(ISqrt(x.v * Scale, 0, 46340))

\* Math.pow(x, 2)
Pow2(x) == Mul(x, x)

\* Scale * ln(n), rounded, for n = 1..8.
LnTable == <<0, 693, 1099, 1386, 1609, 1792, 1946, 2079>>

\* Math.log(n / d) for integers n >= 1 and d >= 0.
LogRatio(n, d) == IF d = 0 THEN Inf(1) ELSE Fin(LnTable[n] - LnTable[d])

\* Math.floor(x)
Floor(x) == IF x.k = "fin" THEN Fin((x.v \div Scale) * Scale) ELSE x

\* x === y
StrictEq(x, y) == x.k # "nan" /\ y.k # "nan" /\ x = y

\* x > y
Gt(x, y) ==
    IF x.k = "nan" \/ y.k = "nan" THEN FALSE
    ELSE IF x.k = "inf" THEN x.v > 0 /\ x # y
    ELSE IF y.k = "inf" THEN y.v < 0
    ELSE x.v > y.v

\* x <= y
Le(x, y) == StrictEq(x, y) \/ Gt(y, x)

\* Whether x is truthy: neither 0 nor NaN.
Truthy(x) == x.k # "nan" /\ ~(x.k = "fin" /\ x.v = 0)

-----------------------------------------------------------------------------
(* Strings *)

Str(s) == [def |-> TRUE, s |-> s]
UndefinedContent == [def |-> FALSE, s |-> <<>>]

\* The characters \w matches, among the characters of the inputs.
WordChars == {"a", "A", "b", "_"}

\* String.prototype.toLowerCase, character by character.
LowerChar(c) == IF c = "A" THEN "a" ELSE c
toLowerCase(word) == [i \in 1..Len(word) |-> LowerChar(word[i])]

\* The characters of the inputs that noPunctuation's character class holds.
Punctuation == {".", "_"}

\* WordMappings.noPunctuation: word.replace(/[!"#$%&'()*+,-./:;<=>?@[\]^_`{|}~]/g, "")
IsNotPunctuation(c) == c \notin Punctuation
noPunctuation(word) == SelectSeq(word, IsNotPunctuation)

\* s.match(/\w+/g): the maximal runs of word characters of s from position i on,
\* cur being the run read so far. No match gives no word.
RECURSIVE MatchWords(_, _, _)
MatchWords(s, i, cur) ==
    IF i > Len(s) THEN (IF cur = <<>> THEN <<>> ELSE <<cur>>)
    ELSE IF s[i] \in WordChars THEN MatchWords(s, i + 1, Append(cur, s[i]))
    ELSE (IF cur = <<>> THEN <<>> ELSE <<cur>>) \o MatchWords(s, i + 1, <<>>)

\* (document.content || "").match(/\w+/g)
RawWords(content) == MatchWords(IF content.def THEN content.s ELSE <<>>, 1, <<>>)

-----------------------------------------------------------------------------
(* Map<string, number>, Set<string> and arrays *)

MapHas(m, key) == key \in DOMAIN m
MapSet(m, key, val) ==
    [x \in (DOMAIN m) \cup {key} |-> IF x = key THEN val ELSE m[x]]

Range(s) == {s[i] : i \in 1..Len(s)}
SetAdd(s, x) == IF x \in Range(s) THEN s ELSE Append(s, x)

\* arr.push(...items) in place of concat: the receiver grows too.
pushAll(arr, items) == [self |-> arr \o items, result |-> arr \o items]

\* arr.concat(items): self is the receiver after the call, result the new array.
concat(arr, items) == [self |-> arr, result |-> arr \o items]

-----------------------------------------------------------------------------
(* Metadata objects *)

\* The next free address of heap h (h's addresses are 1..n).
NextAddr(h) == Cardinality(DOMAIN h) + 1

\* The addresses reachable from address a in heap h.
RECURSIVE Reach(_, _)
Reach(h, a) == IF a = 0 THEN {} ELSE {a} \cup Reach(h, h[a].child)

\* A one-level copy in place of cloneDeep: the objects inside a stay shared.
cloneShallow(h, a) ==
    IF a = 0 THEN [heap |-> h, ref |-> 0]
    ELSE [heap |-> h @@ (NextAddr(h) :> [child |-> h[a].child]), ref |-> NextAddr(h)]

\* lodash cloneDeep(meta): a copy of the object at a and of the objects inside it.
RECURSIVE cloneDeep(_, _)
cloneDeep(h, a) ==
    IF a = 0 THEN [heap |-> h, ref |-> 0]
    ELSE LET c == cloneDeep(h, h[a].child)
             n == NextAddr(c.heap)
         IN [heap |-> c.heap @@ (n :> [child |-> c.ref]), ref |-> n]

\* new Map<string, any>()
NewMap(h) == [heap |-> h @@ (NextAddr(h) :> [child |-> 0]), ref |-> NextAddr(h)]

\* meta ? cloneDeep(meta) : new Map<string, any>()
CopyMeta(h, meta) == IF meta # 0 THEN cloneDeep(h, meta) ELSE NewMap(h)

\* new VectorizedDocument(vector, content, meta)
VectorizedDocument(h, vector, content, meta) ==
    LET m == CopyMeta(h, meta)
    IN [heap |-> m.heap,
        vd |-> [vector |-> vector, content |-> content, meta |-> m.ref]]

\* vd.meta = meta
SetMetaOf(h, doc, meta) ==
    LET m == CopyMeta(h, meta)
    IN [heap |-> m.heap, vd |-> [doc EXCEPT !.meta = m.ref]]

-----------------------------------------------------------------------------
(* The caller's inputs *)

\* The metadata objects the caller owns: 1 holds 2, 3 holds nothing.
CallerHeap == (1 :> [child |-> 2]) @@ (2 :> [child |-> 0]) @@ (3 :> [child |-> 0])
CallerMetas == {0, 1, 3}

\* The RawDocuments the caller builds collections from.
RawDocs ==
    { [content |-> Str(<<>>), meta |-> 0],
      [content |-> Str(<<"a">>), meta |-> 1],
      [content |-> Str(<<"A", " ", "b">>), meta |-> 3],
      [content |-> Str(<<"b", ".", "b">>), meta |-> 0],
      [content |-> Str(<<"a", "_", " ", "_", " ", "a">>), meta |-> 0],
      [content |-> UndefinedContent, meta |-> 3] }

Collections == UNION {[1..n -> RawDocs] : n \in 0..MaxDocs}

Queries == {<<>>, <<".">>, <<"a">>, <<"A", " ", "b">>}

\* The values of k: NaN, -1, 0, 1/2, 3/2 and 1..MaxDocs+1.
KValues ==
    {NaN, Fin(-Scale), Zero, Fin(Scale \div 2), Fin(Scale + Scale \div 2)}
        \cup {FromInt(i) : i \in 1..(MaxDocs + 1)}

SimilaritySchemaNames == {"cosineSimilarity", "dotProduct"}
WeighingSchemaNames == {"undefined", "tfidf"}
WordMappingNames == {"undefined", "caseInsensitive", "noPunctuation"}

-----------------------------------------------------------------------------
(* State *)

VARIABLES
    similaritySchema,       \* VectorSpaceModel._similaritySchema
    weighingSchema,         \* VectorSpaceModel._weighingSchema
    wordMappingSchema,      \* VectorSpaceModel._wordMappingSchema
    pc,                     \* position of the running call
    collection,             \* the RawDocument[] the caller holds
    query, k,               \* the other arguments of the running query call
    heap,                   \* the metadata objects
    batch,                  \* collection.concat([{content: query}])
    idx,                    \* position of .map in batch
    dimensions,             \* const dimensions
    vectors,                \* let vectors
    normalizedVectorSpace,  \* tfidf's copy of the batch
    dimIdx,                 \* position of dictionary.forEach in tfidf
    queryVector,            \* vectors.pop(): <<>> is undefined
    scoredVectors,          \* const scoredVectors
    result,                 \* the array query returns
    error,                  \* the message of the Error query throws
    vd,                     \* a VectorizedDocument the caller holds: <<>> is none
    vdSource,               \* the meta the caller last gave vd
    va, vb,                 \* the arguments of a direct dotProduct call
    dpab, dpba              \* dotProduct(va, vb), dotProduct(vb, va): <<>> is none

vars ==
    <<similaritySchema, weighingSchema, wordMappingSchema, pc, query, collection,
      k, heap, batch, idx, dimensions, vectors, normalizedVectorSpace, dimIdx,
      queryVector, scoredVectors, result, error, vd, vdSource, va, vb, dpab, dpba>>

modelFields == <<similaritySchema, weighingSchema, wordMappingSchema>>
callArgs == <<query, collection, k>>
callLocals == <<query, k, heap, result, error>>
locals ==
    <<batch, idx, dimensions, vectors, normalizedVectorSpace, dimIdx, queryVector,
      scoredVectors>>
dotVars == <<va, vb, dpab, dpba>>
vdVars == <<vd, vdSource>>

\* No call is running: nothing but the model's fields and the caller's objects.
Idle ==
    /\ pc = "idle"
    /\ query = <<>> /\ k = Zero
    /\ heap = CallerHeap
    /\ batch = <<>> /\ idx = 0 /\ dimensions = <<>> /\ vectors = <<>>
    /\ normalizedVectorSpace = <<>> /\ dimIdx = 0
    /\ queryVector = <<>> /\ scoredVectors = <<>>
    /\ result = <<>> /\ error = ""
    /\ vd = <<>> /\ vdSource = 0

\* The next state is one where no call is running.
BecomeIdle ==
    /\ pc' = "idle"
    /\ query' = <<>> /\ k' = Zero
    /\ heap' = CallerHeap
    /\ batch' = <<>> /\ idx' = 0 /\ dimensions' = <<>> /\ vectors' = <<>>
    /\ normalizedVectorSpace' = <<>> /\ dimIdx' = 0
    /\ queryVector' = <<>> /\ scoredVectors' = <<>>
    /\ result' = <<>> /\ error' = ""
    /\ vd' = <<>> /\ vdSource' = 0

\* new VectorSpaceModel(similaritySchema, weighingSchema?, wordMappingSchema?)
Init ==
    /\ similaritySchema \in SimilaritySchemaNames
    /\ weighingSchema \in WeighingSchemaNames
    /\ wordMappingSchema \in WordMappingNames
    /\ Idle
    /\ collection = <<>>
    /\ va = <<>> /\ vb = <<>> /\ dpab = <<>> /\ dpba = <<>>

-----------------------------------------------------------------------------
(* VectorSpaceModel.query *)

ErrKGreater == "Parameter k cannot be greater than collection size."
ErrKPositive == "Parameter k must be a positive integer."
ErrEmptyQuery == "Empty query not allowed."
Errors == {ErrKGreater, ErrKPositive, ErrEmptyQuery}

\* The chain without its k !== Math.floor(k) test.
ValidateNoFloor(q, coll, kk) ==
    IF Gt(kk, FromInt(Len(coll))) THEN ErrKGreater
    ELSE IF Le(kk, Zero) THEN ErrKPositive
    ELSE IF q = <<>> THEN ErrEmptyQuery
    ELSE IF Len(coll) = 0 THEN "return []"
    ELSE "proceed"

\* The if / else-if chain that opens query.
Validate(q, coll, kk) ==
    IF Gt(kk, FromInt(Len(coll))) THEN ErrKGreater
    ELSE IF Le(kk, Zero) \/ ~StrictEq(kk, Floor(kk)) THEN ErrKPositive
    ELSE IF q = <<>> THEN ErrEmptyQuery
    ELSE IF Len(coll) = 0 THEN "return []"
    ELSE "proceed"

\* The caller builds the collection it will query.
Collect(coll) ==
    /\ pc = "idle"
    /\ vd = <<>>
    /\ collection' = coll
    /\ UNCHANGED <<modelFields, pc, callLocals, locals, vdVars, dotVars>>

\* query(q, collection, kk) up to the start of vectorization.
Query(q, kk) ==
    /\ pc = "idle"
    /\ vd = <<>>
    /\ query' = q
    /\ k' = kk
    /\ LET out == Validate(q, collection, kk)
           c == concat(collection, <<[content |-> Str(q), meta |-> 0]>>)
       IN IF out \in Errors
          THEN /\ pc' = "thrown"
               /\ error' = out
               /\ UNCHANGED <<collection, result, locals>>
          ELSE IF out = "return []"
          THEN /\ pc' = "done"
               /\ result' = <<>>
               /\ UNCHANGED <<collection, error, locals>>
          ELSE /\ pc' = "vectorize"
               /\ collection' = c.self
               /\ batch' = c.result
               /\ idx' = 1
               /\ dimensions' = <<>>
               /\ UNCHANGED <<result, error, vectors, normalizedVectorSpace,
                              dimIdx, queryVector, scoredVectors>>
    /\ UNCHANGED <<modelFields, heap, vdVars, dotVars>>

\* this._wordMappingSchema(rawWord)
ApplyWordMapping(mapping, rawWord) ==
    IF mapping = "caseInsensitive" THEN toLowerCase(rawWord)
    ELSE IF mapping = "noPunctuation" THEN noPunctuation(rawWord)
    ELSE rawWord

\* The forEach adding the raw word, not the mapped one, to the dimensions.
RECURSIVE ForEachRawWordRawDimension(_, _, _, _, _)
ForEachRawWordRawDimension(rawWords, i, vector, dims, mapping) ==
    IF i > Len(rawWords) THEN [vector |-> vector, dimensions |-> dims]
    ELSE LET word == IF mapping # "undefined"
                     THEN ApplyWordMapping(mapping, rawWords[i])
                     ELSE rawWords[i]
             wordCount == IF MapHas(vector, word) /\ Truthy(vector[word])
                          THEN vector[word]
                          ELSE Zero
         IN ForEachRawWordRawDimension(rawWords, i + 1,
                MapSet(vector, word, Add(FromInt(1), wordCount)),
                SetAdd(dims, rawWords[i]), mapping)

\* The forEach keying the vector and the dimensions by the raw word.
RECURSIVE ForEachRawWordUnmapped(_, _, _, _, _)
ForEachRawWordUnmapped(rawWords, i, vector, dims, mapping) ==
    IF i > Len(rawWords) THEN [vector |-> vector, dimensions |-> dims]
    ELSE LET word == rawWords[i]
             wordCount == IF MapHas(vector, word) /\ Truthy(vector[word])
                          THEN vector[word]
                          ELSE Zero
         IN ForEachRawWordUnmapped(rawWords, i + 1,
                MapSet(vector, word, Add(FromInt(1), wordCount)),
                SetAdd(dims, word), mapping)

\* The forEach storing 1 for a word whatever count it had.
RECURSIVE ForEachRawWordNoCount(_, _, _, _, _)
ForEachRawWordNoCount(rawWords, i, vector, dims, mapping) ==
    IF i > Len(rawWords) THEN [vector |-> vector, dimensions |-> dims]
    ELSE LET word == IF mapping # "undefined"
                     THEN ApplyWordMapping(mapping, rawWords[i])
                     ELSE rawWords[i]
         IN ForEachRawWordNoCount(rawWords, i + 1,
                MapSet(vector, word, FromInt(1)), SetAdd(dims, word), mapping)

\* rawWords.forEach(...) from word i on: the document's vector and the
\* dimensions once every word is counted.
RECURSIVE ForEachRawWord(_, _, _, _, _)
ForEachRawWord(rawWords, i, vector, dims, mapping) ==
    IF i > Len(rawWords) THEN [vector |-> vector, dimensions |-> dims]
    ELSE LET word == IF mapping # "undefined"
                     THEN ApplyWordMapping(mapping, rawWords[i])
                     ELSE rawWords[i]
             wordCount == IF MapHas(vector, word) /\ Truthy(vector[word])
                          THEN vector[word]
                          ELSE Zero
         IN ForEachRawWord(rawWords, i + 1,
                           MapSet(vector, word, Add(FromInt(1), wordCount)),
                           SetAdd(dims, word), mapping)

\* One call of the .map callback: batch[idx] becomes a VectorizedDocument.
VectorizeDocument ==
    /\ pc = "vectorize"
    /\ LET document == batch[idx]
           r == ForEachRawWord(RawWords(document.content), 1, <<>>, dimensions,
                               wordMappingSchema)
           c == VectorizedDocument(heap, r.vector, document.content, document.meta)
       IN /\ dimensions' = r.dimensions
          /\ vectors' = Append(vectors, c.vd)
          /\ heap' = c.heap
    /\ idx' = idx + 1
    /\ pc' = IF idx = Len(batch) THEN "weigh" ELSE "vectorize"
    /\ UNCHANGED <<modelFields, callArgs, batch, normalizedVectorSpace, dimIdx,
                   queryVector, scoredVectors, result, error, vdVars, dotVars>>

-----------------------------------------------------------------------------
(* VectorOperations and SimilaritySchemas *)

\* The forEach of dotProduct over the entries of a whose keys are in keys.
RECURSIVE DotEntries(_, _, _)
DotEntries(keys, a, b) ==
    IF keys = {} THEN Zero
    ELSE LET t == CHOOSE x \in keys : TRUE
             term == IF MapHas(b.vector, t) /\ Truthy(b.vector[t])
                     THEN Mul(a.vector[t], b.vector[t])
                     ELSE Zero
         IN Add(term, DotEntries(keys \ {t}, a, b))

\* dotProduct reading b.vector.get(t) || 1 in place of its if (bNthDimension).
RECURSIVE DotEntriesMissingAsOne(_, _, _)
DotEntriesMissingAsOne(keys, a, b) ==
    IF keys = {} THEN Zero
    ELSE LET t == CHOOSE x \in keys : TRUE
             bNth == IF MapHas(b.vector, t) /\ Truthy(b.vector[t])
                     THEN b.vector[t]
                     ELSE FromInt(1)
         IN Add(Mul(a.vector[t], bNth), DotEntriesMissingAsOne(keys \ {t}, a, b))
dotProductMissingAsOne(a, b) == DotEntriesMissingAsOne(DOMAIN a.vector, a, b)

\* VectorOperations.dotProduct(a, b)
dotProduct(a, b) == DotEntries(DOMAIN a.vector, a, b)

\* The forEach of euclideanLength over the values stored under keys.
RECURSIVE SumSquares(_, _)
SumSquares(keys, v) ==
    IF keys = {} THEN Zero
    ELSE LET t == CHOOSE x \in keys : TRUE
         IN Add(Pow2(v.vector[t]), SumSquares(keys \ {t}, v))

\* VectorOperations.euclideanLength(vector)
euclideanLength(v) == Sqrt(SumSquares(DOMAIN v.vector, v))

\* SimilaritySchemas.cosineSimilarity(a, b)
cosineSimilarity(a, b) ==
    Div(dotProduct(a, b), Mul(euclideanLength(a), euclideanLength(b)))

\* this._similaritySchema(a, b)
ApplySimilarity(schema, a, b) ==
    IF schema = "cosineSimilarity" THEN cosineSimilarity(a, b) ELSE dotProduct(a, b)

-----------------------------------------------------------------------------
(* WeighingSchemas.tfidf *)

\* cloneDeep(vectorSpace): every document copied, its metadata included.
RECURSIVE cloneDeepAll(_, _)
cloneDeepAll(h, vs) ==
    IF vs = <<>> THEN [heap |-> h, vs |-> <<>>]
    ELSE LET m == cloneDeep(h, Head(vs).meta)
             rest == cloneDeepAll(m.heap, Tail(vs))
         IN [heap |-> rest.heap,
             vs |-> <<[Head(vs) EXCEPT !.meta = m.ref]>> \o rest.vs]

\* Number of documents of vectorSpace that contain dimension.
DocumentFrequency(vectorSpace, dimension) ==
    Cardinality({i \in 1..Len(vectorSpace) : MapHas(vectorSpace[i].vector, dimension)})

\* The body rewriting only the terms a vector already has.
TfidfDimensionExistingKeys(vectorSpace, normalized, dimension) ==
    LET idf == LogRatio(Len(normalized), DocumentFrequency(vectorSpace, dimension))
    IN [i \in 1..Len(normalized) |->
          LET vec == normalized[i].vector
          IN IF MapHas(vec, dimension)
             THEN [normalized[i] EXCEPT
                      !.vector = MapSet(vec, dimension, Mul(idf, vec[dimension]))]
             ELSE normalized[i]]

\* The body of dictionary.forEach for one dimension: normalized after it.
TfidfDimensionOf(vectorSpace, normalized, dimension) ==
    LET idf == LogRatio(Len(normalized), DocumentFrequency(vectorSpace, dimension))
    IN [i \in 1..Len(normalized) |->
          LET vec == normalized[i].vector
              tf == IF MapHas(vec, dimension) /\ Truthy(vec[dimension])
                    THEN vec[dimension]
                    ELSE Zero
          IN [normalized[i] EXCEPT !.vector = MapSet(vec, dimension, Mul(idf, tf))]]

\* The weighing step running tfidf whether or not a schema was given.
WeighAlwaysTfidf ==
    /\ pc = "weigh"
    /\ LET c == cloneDeepAll(heap, vectors)
       IN /\ normalizedVectorSpace' = c.vs
          /\ heap' = c.heap
          /\ dimIdx' = 1
          /\ pc' = "tfidf"
    /\ UNCHANGED <<modelFields, callArgs, batch, idx, dimensions, vectors,
                   queryVector, scoredVectors, result, error, vdVars, dotVars>>

\* vectors = this._weighingSchema ? this._weighingSchema(vectors, dimensions)
\* : vectors, up to tfidf's cloneDeep.
Weigh ==
    /\ pc = "weigh"
    /\ IF weighingSchema = "undefined"
       THEN /\ pc' = "score"
            /\ UNCHANGED <<heap, normalizedVectorSpace, dimIdx>>
       ELSE LET c == cloneDeepAll(heap, vectors)
            IN /\ normalizedVectorSpace' = c.vs
               /\ heap' = c.heap
               /\ dimIdx' = 1
               /\ pc' = "tfidf"
    /\ UNCHANGED <<modelFields, callArgs, batch, idx, dimensions, vectors,
                   queryVector, scoredVectors, result, error, vdVars, dotVars>>

\* One round of dictionary.forEach writing into the input vector space itself.
TfidfDimensionInPlace ==
    /\ pc = "tfidf"
    /\ dimIdx <= Len(dimensions)
    /\ vectors' = TfidfDimensionOf(vectors, vectors, dimensions[dimIdx])
    /\ normalizedVectorSpace' = vectors'
    /\ dimIdx' = dimIdx + 1
    /\ UNCHANGED <<modelFields, callArgs, pc, heap, batch, idx, dimensions,
                   queryVector, scoredVectors, result, error, vdVars, dotVars>>

\* One round of dictionary.forEach in tfidf.
TfidfDimension ==
    /\ pc = "tfidf"
    /\ dimIdx <= Len(dimensions)
    /\ normalizedVectorSpace' =
           TfidfDimensionOf(vectors, normalizedVectorSpace, dimensions[dimIdx])
    /\ dimIdx' = dimIdx + 1
    /\ UNCHANGED <<modelFields, callArgs, pc, heap, batch, idx, dimensions, vectors,
                   queryVector, scoredVectors, result, error, vdVars, dotVars>>

\* return normalizedVectorSpace, assigned to vectors by query.
TfidfReturn ==
    /\ pc = "tfidf"
    /\ dimIdx > Len(dimensions)
    /\ vectors' = normalizedVectorSpace
    /\ normalizedVectorSpace' = <<>>
    /\ pc' = "score"
    /\ UNCHANGED <<modelFields, callArgs, heap, batch, idx, dimensions, dimIdx,
                   queryVector, scoredVectors, result, error, vdVars, dotVars>>

-----------------------------------------------------------------------------
(* Scoring, sorting and the result *)

\* arr.pop(): self is the receiver after the call, popped the element (<<>> if none).
pop(arr) ==
    IF arr = <<>> THEN [self |-> <<>>, popped |-> <<>>]
    ELSE [self |-> SubSeq(arr, 1, Len(arr) - 1), popped |-> <<arr[Len(arr)]>>]

\* const queryVector = vectors.pop(); const scoredVectors = vectors.map(...)
Score ==
    /\ pc = "score"
    /\ LET p == pop(vectors)
       IN /\ vectors' = p.self
          /\ queryVector' = p.popped
          /\ scoredVectors' =
                 [i \in 1..Len(p.self) |->
                     [vd |-> p.self[i],
                      score |-> IF p.popped # <<>>
                                THEN ApplySimilarity(similaritySchema, p.popped[1],
                                                     p.self[i])
                                ELSE Zero]]
    /\ pc' = "sort"
    /\ UNCHANGED <<modelFields, callArgs, heap, batch, idx, dimensions,
                   normalizedVectorSpace, dimIdx, result, error, vdVars, dotVars>>

\* The comparator handed to sort.
compareFn(a, b) ==
    IF StrictEq(a.score, b.score) THEN 0 ELSE IF Gt(a.score, b.score) THEN 1 ELSE -1

\* Whether compareFn orders the elements of s consistently: Array.prototype.sort
\* leaves the order to the implementation when it does not.
ConsistentComparator(s) ==
    \A i, j \in 1..Len(s) : compareFn(s[i], s[j]) = -compareFn(s[j], s[i])

\* x put into the sorted array s, behind every element not greater than it.
RECURSIVE Insert(_, _)
Insert(s, x) ==
    IF s = <<>> THEN <<x>>
    ELSE IF compareFn(s[Len(s)], x) > 0
         THEN Append(Insert(SubSeq(s, 1, Len(s) - 1), x), s[Len(s)])
         ELSE Append(s, x)

\* The stable sort of s by compareFn.
RECURSIVE StableSort(_)
StableSort(s) ==
    IF s = <<>> THEN <<>>
    ELSE Insert(StableSort(SubSeq(s, 1, Len(s) - 1)), s[Len(s)])

\* Every order of the elements of s.
Orders(s) ==
    {[i \in 1..Len(s) |-> s[p[i]]] :
        p \in {q \in [1..Len(s) -> 1..Len(s)] :
                  \A i, j \in 1..Len(s) : q[i] = q[j] => i = j}}

\* The arrays scoredVectors.sort(compareFn) may leave.
SortOutcomes(s) ==
    IF ConsistentComparator(s) THEN {StableSort(s)} ELSE Orders(s)

\* scoredVectors.sort(...)
Sort ==
    /\ pc = "sort"
    /\ scoredVectors' \in SortOutcomes(scoredVectors)
    /\ pc' = "slice"
    /\ UNCHANGED <<modelFields, callArgs, heap, batch, idx, dimensions, vectors,
                   normalizedVectorSpace, dimIdx, queryVector, result, error,
                   vdVars, dotVars>>

\* ToIntegerOrInfinity(x), for a finite x or NaN.
ToInteger(x) ==
    IF x.k # "fin" THEN 0
    ELSE IF x.v >= 0 THEN x.v \div Scale ELSE -((-x.v) \div Scale)

\* slice keeping the element at end too.
sliceOffByOne(arr, end) ==
    LET e == ToInteger(end) + 1
    IN SubSeq(arr, 1, IF e < Len(arr) THEN e ELSE Len(arr))

\* arr.slice(0, end)
slice(arr, end) ==
    LET e == ToInteger(end)
        final == IF e < 0 THEN (IF Len(arr) + e > 0 THEN Len(arr) + e ELSE 0)
                 ELSE IF e < Len(arr) THEN e ELSE Len(arr)
    IN SubSeq(arr, 1, final)

\* const cream = scoredVectors.slice(0, k); return cream.map(...)
Return ==
    /\ pc = "slice"
    /\ LET cream == slice(scoredVectors, k)
       IN result' = [i \in 1..Len(cream) |->
                        [content |-> cream[i].vd.content, meta |-> cream[i].vd.meta]]
    /\ pc' = "done"
    /\ UNCHANGED <<modelFields, callArgs, heap, locals, error, vdVars, dotVars>>

\* The call is over: its locals are gone, the caller drops what it got.
Finish ==
    /\ pc \in {"done", "thrown"}
    /\ BecomeIdle
    /\ UNCHANGED <<modelFields, collection, dotVars>>

-----------------------------------------------------------------------------
(* A VectorizedDocument in the caller's hands *)

\* Largest number of metadata objects alive at once.
MaxHeap == 9

\* new VectorizedDocument(new Map(), "", meta)
NewVectorizedDocument(meta) ==
    /\ pc = "idle"
    /\ vd = <<>>
    /\ LET c == VectorizedDocument(heap, <<>>, Str(<<>>), meta)
       IN vd' = <<c.vd>> /\ heap' = c.heap
    /\ vdSource' = meta
    /\ UNCHANGED <<modelFields, callArgs, pc, locals, result, error, dotVars>>

\* vd.meta = meta
SetMeta(meta) ==
    /\ pc = "idle"
    /\ vd # <<>>
    /\ NextAddr(heap) < MaxHeap
    /\ LET c == SetMetaOf(heap, vd[1], meta)
       IN vd' = <<c.vd>> /\ heap' = c.heap
    /\ vdSource' = meta
    /\ UNCHANGED <<modelFields, callArgs, pc, locals, result, error, dotVars>>

\* The caller drops vd.
DropVectorizedDocument ==
    /\ pc = "idle"
    /\ vd # <<>>
    /\ BecomeIdle
    /\ UNCHANGED <<modelFields, collection, dotVars>>

-----------------------------------------------------------------------------
(* The model and its callers *)

Next ==
    \/ \E coll \in Collections : Collect(coll)
    \/ \E q \in Queries, kk \in KValues : Query(q, kk)
    \/ VectorizeDocument
    \/ Weigh
    \/ TfidfDimension
    \/ TfidfReturn
    \/ Score
    \/ Sort
    \/ Return
    \/ Finish
    \/ \E meta \in CallerMetas : NewVectorizedDocument(meta)
    \/ \E meta \in CallerMetas : SetMeta(meta)
    \/ DropVectorizedDocument

Spec == Init /\ [][Next]_vars

-----------------------------------------------------------------------------
(* VectorOperations.dotProduct called on its own *)

DotTerms == {<<"a">>, <<"b">>, <<"a", "b">>}

\* The vectors over DotTerms with integer weights in -MaxWeight..MaxWeight.
DotVectors ==
    UNION {[keys -> {FromInt(w) : w \in (-MaxWeight)..MaxWeight}] :
              keys \in SUBSET DotTerms}

DotDocument(vector) == [vector |-> vector, content |-> Str(<<>>), meta |-> 0]

InitDot ==
    /\ similaritySchema = "dotProduct"
    /\ weighingSchema = "undefined"
    /\ wordMappingSchema = "undefined"
    /\ Idle
    /\ collection = <<>>
    /\ va \in {<<DotDocument(v)>> : v \in DotVectors}
    /\ vb \in {<<DotDocument(v)>> : v \in DotVectors}
    /\ dpab = <<>> /\ dpba = <<>>

\* dotProduct(va, vb) and dotProduct(vb, va)
DotProductCall ==
    /\ dpab = <<>>
    /\ dpab' = <<dotProduct(va[1], vb[1])>>
    /\ dpba' = <<dotProduct(vb[1], va[1])>>
    /\ UNCHANGED <<modelFields, callArgs, pc, heap, locals, result, error, vdVars,
                   va, vb>>

NextDot == DotProductCall

SpecDot == InitDot /\ [][NextDot]_vars

-----------------------------------------------------------------------------
(* query called on longer collections *)

\* Number of documents of the collections below.
MaxTieDocs == 3

\* The collections of MaxTieDocs documents.
TieCollections == [1..MaxTieDocs -> RawDocs]

NextTies ==
    \/ \E coll \in TieCollections : Collect(coll)
    \/ \E q \in Queries, kk \in KValues : Query(q, kk)
    \/ VectorizeDocument
    \/ Weigh
    \/ TfidfDimension
    \/ TfidfReturn
    \/ Score
    \/ Sort
    \/ Return
    \/ Finish

SpecTies == Init /\ [][NextTies]_vars

-----------------------------------------------------------------------------
(* Properties of query *)

\* x >= y
Ge(x, y) == StrictEq(x, y) \/ Gt(x, y)

\* A query call on a non-empty collection has returned.
Returned == pc = "done" /\ collection # <<>>

\* The entry of scoredVectors that result[j] was made from.
ScoredIndex(j) ==
    CHOOSE i \in 1..Len(scoredVectors) : scoredVectors[i].vd.meta = result[j].meta
ScoreOfResult(j) == scoredVectors[ScoredIndex(j)].score
ReturnedEntries == {ScoredIndex(j) : j \in 1..Len(result)}

\* C1: when query returns on a non-empty collection, its results are in
\* descending score order and no document left out scores strictly higher
\* than a returned one.
C1_TopKDescending ==
    Returned =>
        /\ \A j \in 1..(Len(result) - 1) : Ge(ScoreOfResult(j), ScoreOfResult(j + 1))
        /\ \A i \in (1..Len(scoredVectors)) \ ReturnedEntries :
               \A j \in 1..Len(result) :
                   ~Gt(scoredVectors[i].score, ScoreOfResult(j))

\* Whether the object at copy has the shape of a copy of the meta orig
\* (an absent meta is copied as an empty Map).
IsCopyOf(copy, orig) ==
    /\ copy # 0
    /\ Cardinality(Reach(heap, copy)) =
           (IF orig = 0 THEN 1 ELSE Cardinality(Reach(heap, orig)))

\* C2: when query returns on a non-empty collection, it returns exactly k
\* results, each the content and metadata of a distinct document of the
\* collection, and never the query pseudo-document.
C2_ExactlyKDistinct ==
    Returned =>
        /\ k = FromInt(Len(result))
        /\ \E f \in [1..Len(result) -> 1..Len(collection)] :
               /\ \A i, j \in 1..Len(result) : f[i] = f[j] => i = j
               /\ \A j \in 1..Len(result) :
                      /\ result[j].content = collection[f[j]].content
                      /\ result[j].meta = vectors[f[j]].meta
                      /\ IsCopyOf(result[j].meta, collection[f[j]].meta)
        /\ \A j \in 1..Len(result) : result[j].meta # queryVector[1].meta

C2_Witness ==
    /\ Returned
    /\ Len(collection) = 2
    /\ k = FromInt(1)
    /\ Len(result) = 1
    /\ collection[1] = collection[2]

\* A query call with a non-empty query text on an empty collection is over.
EmptyCollectionCall ==
    pc \in {"done", "thrown"} /\ collection = <<>> /\ query # <<>>

\* C3: query on an empty collection returns the empty list and raises no
\* error, whatever k is.
C3_EmptyCollectionReturnsEmpty ==
    EmptyCollectionCall => (pc = "done" /\ result = <<>> /\ error = "")

\* k is not a positive integer, or exceeds the collection size.
BadK ==
    \/ k.k # "fin"
    \/ k.v <= 0
    \/ k.v % Scale # 0
    \/ k.v > Len(collection) * Scale

\* A call is running or over whose arguments are not acceptable.
RejectedCall == pc # "idle" /\ collection # <<>> /\ (BadK \/ query = <<>>)

\* C4: on a non-empty collection, a k that is not a positive integer or exceeds
\* the collection size, or an empty query, makes query throw a usage error
\* before anything is tokenized, copied, weighed or scored, and no result is made.
C4_UsageErrorBeforeAnyWork ==
    RejectedCall =>
        /\ pc = "thrown"
        /\ error \in Errors
        /\ batch = <<>> /\ dimensions = <<>> /\ vectors = <<>>
        /\ normalizedVectorSpace = <<>>
        /\ queryVector = <<>> /\ scoredVectors = <<>>
        /\ heap = CallerHeap
        /\ result = <<>>

C4_Witness ==
    /\ RejectedCall
    /\ pc = "thrown"
    /\ k = Fin(Scale + Scale \div 2)
    /\ Len(collection) = 2
    /\ query # <<>>
    /\ error = ErrKPositive

\* C5: with tf-idf weighing and cosine similarity no document is scored by
\* dividing by a zero Euclidean length, and no score is NaN.
C5_CosineDivisionGuarded ==
    (/\ weighingSchema = "tfidf"
     /\ similaritySchema = "cosineSimilarity"
     /\ pc \in {"sort", "slice", "done"}
     /\ queryVector # <<>>) =>
        \A i \in 1..Len(scoredVectors) :
            /\ Mul(euclideanLength(queryVector[1]),
                   euclideanLength(scoredVectors[i].vd)) # Zero
            /\ scoredVectors[i].score.k # "nan"

\* tfidf has rewritten every dimension and is about to return.
TfidfDone == pc = "tfidf" /\ dimIdx > Len(dimensions)

\* C6 as stated: tfidf returns as many documents, in the same order, each
\* with exactly the key set of its input vector.
C6_SameKeySets ==
    TfidfDone =>
        /\ Len(normalizedVectorSpace) = Len(vectors)
        /\ \A i \in 1..Len(vectors) :
               /\ normalizedVectorSpace[i].content = vectors[i].content
               /\ DOMAIN normalizedVectorSpace[i].vector = DOMAIN vectors[i].vector

\* C6 amended: tfidf returns as many documents, in the same order, and the
\* key set of each output vector is the key set of its input vector together
\* with every term of the dictionary: no term is removed, and each dictionary
\* term the input lacks is added.
C6_KeySetsGrowToDictionary ==
    TfidfDone =>
        /\ Len(normalizedVectorSpace) = Len(vectors)
        /\ \A i \in 1..Len(vectors) :
               /\ normalizedVectorSpace[i].content = vectors[i].content
               /\ DOMAIN normalizedVectorSpace[i].vector =
                      (DOMAIN vectors[i].vector) \cup Range(dimensions)

C6_Witness ==
    /\ TfidfDone
    /\ Len(vectors) = 3
    /\ \E i \in 1..Len(vectors) :
           /\ DOMAIN vectors[i].vector # {}
           /\ Range(dimensions) \ DOMAIN vectors[i].vector # {}
           /\ DOMAIN normalizedVectorSpace[i].vector # DOMAIN vectors[i].vector

\* The objects of a and those of b are disjoint.
Unshared(a, b) == Reach(heap, a) \cap Reach(heap, b) = {}

\* C7: the meta of a VectorizedDocument, whether set by the constructor or by
\* the meta setter, and the meta of every document query returns, shares no
\* object with the meta of the RawDocument it came from.
C7_MetaNeverShared ==
    /\ \A i \in 1..Len(vectors) :
           vectors[i].meta # 0 /\ Unshared(vectors[i].meta, batch[i].meta)
    /\ \A i \in 1..Len(normalizedVectorSpace) :
           /\ normalizedVectorSpace[i].meta # 0
           /\ Unshared(normalizedVectorSpace[i].meta, batch[i].meta)
    /\ \A i \in 1..Len(queryVector) : queryVector[i].meta # 0
    /\ \A j \in 1..Len(result) :
           /\ result[j].meta # 0
           /\ \A i \in 1..Len(collection) :
                  Unshared(result[j].meta, collection[i].meta)
    /\ \A i \in 1..Len(vd) : vd[i].meta # 0 /\ Unshared(vd[i].meta, vdSource)

C7_Witness ==
    /\ Returned
    /\ \E j \in 1..Len(result) :
           \E i \in 1..Len(collection) :
               /\ collection[i].meta = 1
               /\ result[j].content = collection[i].content
               /\ Cardinality(Reach(heap, result[j].meta)) = 2

\* C8: no step of a query call changes the model's similarity, weighing or
\* word-mapping field, and none changes the caller's collection: from the
\* call to its end the collection is the array the caller built.
C8_QueryStateless ==
    [][/\ similaritySchema' = similaritySchema
       /\ weighingSchema' = weighingSchema
       /\ wordMappingSchema' = wordMappingSchema
       /\ (pc # "idle" \/ pc' # "idle") => collection' = collection]_vars

C8_Witness ==
    /\ Returned
    /\ weighingSchema = "tfidf"
    /\ Len(collection) = 2
    /\ Len(result) = 2
    /\ batch = Append(collection, [content |-> Str(query), meta |-> 0])

\* The term a raw word counts under.
ExpectedTerm(rawWord) ==
    IF wordMappingSchema = "undefined" THEN rawWord
    ELSE IF wordMappingSchema = "caseInsensitive" THEN toLowerCase(rawWord)
    ELSE noPunctuation(rawWord)

\* term -> number of words of content that count under it.
TermFrequencies(content) ==
    LET w == RawWords(content)
    IN [t \in {ExpectedTerm(w[j]) : j \in 1..Len(w)} |->
           FromInt(Cardinality({j \in 1..Len(w) : ExpectedTerm(w[j]) = t}))]

\* The raw words of every document of the batch.
RawWordsOfBatch == UNION {Range(RawWords(batch[i].content)) : i \in 1..Len(batch)}

\* C9: without a weighing schema the vectors handed to the similarity schema
\* are the term-frequency vectors of the documents and of the query, and the
\* scores are the similarity of those; without a word mapper the dimensions
\* are the raw words.
C9_DefaultsAreRawCounts ==
    /\ (weighingSchema = "undefined" /\ pc = "sort") =>
           /\ queryVector # <<>>
           /\ queryVector[1].vector = TermFrequencies(Str(query))
           /\ Len(scoredVectors) = Len(collection)
           /\ \A i \in 1..Len(scoredVectors) :
                  /\ scoredVectors[i].vd.vector =
                         TermFrequencies(collection[i].content)
                  /\ scoredVectors[i].score =
                         ApplySimilarity(similaritySchema,
                             [vector |-> TermFrequencies(Str(query))],
                             [vector |-> TermFrequencies(collection[i].content)])
    /\ (wordMappingSchema = "undefined" /\ pc \in {"weigh", "tfidf", "score", "sort"}) =>
           Range(dimensions) = RawWordsOfBatch

C9_Witness ==
    /\ weighingSchema = "undefined"
    /\ wordMappingSchema = "undefined"
    /\ pc = "sort"
    /\ \E i \in 1..Len(scoredVectors) :
           <<"A">> \in DOMAIN scoredVectors[i].vd.vector
    /\ \E i \in 1..Len(scoredVectors) :
           \E t \in DOMAIN scoredVectors[i].vd.vector :
               scoredVectors[i].vd.vector[t] = FromInt(2)

-----------------------------------------------------------------------------
(* Properties of dotProduct *)

\* The sum over keys of the product of the integer weights of a and b.
RECURSIVE SumOfProducts(_, _, _)
SumOfProducts(keys, a, b) ==
    IF keys = {} THEN 0
    ELSE LET t == CHOOSE x \in keys : TRUE
         IN (a[t].v \div Scale) * (b[t].v \div Scale)
                + SumOfProducts(keys \ {t}, a, b)

\* C10: dotProduct(a, b) = dotProduct(b, a), and both are the sum, over the
\* terms present in both vectors, of the product of the two weights.
C10_DotProductSymmetric ==
    dpab # <<>> =>
        /\ dpab = dpba
        /\ dpab[1] =
               FromInt(SumOfProducts((DOMAIN va[1].vector) \cap (DOMAIN vb[1].vector),
                                     va[1].vector, vb[1].vector))

C10_Witness ==
    /\ dpab # <<>>
    /\ dpab[1] # Zero
    /\ (DOMAIN va[1].vector) \ (DOMAIN vb[1].vector) # {}
    /\ \E t \in (DOMAIN va[1].vector) \cap (DOMAIN vb[1].vector) :
           vb[1].vector[t] = Zero

-----------------------------------------------------------------------------
(* Properties of vectorization and weighing *)

\* The batch is vectorized and handed, or about to be handed, to the weighing.
Vectorized == pc \in {"weigh", "tfidf"}

\* C11: every term of the dictionary handed to the weighing schema is a key
\* of at least one vector of the batch, so tfidf's documentFrequency is >= 1
\* for it and the idf is a finite number.
C11_DictionaryTermsOccur ==
    Vectorized =>
        \A t \in Range(dimensions) :
            /\ \E i \in 1..Len(vectors) : t \in DOMAIN vectors[i].vector
            /\ DocumentFrequency(vectors, t) >= 1
            /\ LogRatio(Len(vectors), DocumentFrequency(vectors, t)).k = "fin"

C11_Witness ==
    /\ pc = "tfidf"
    /\ Len(vectors) = 3
    /\ \E t \in Range(dimensions) : DocumentFrequency(vectors, t) = 1
    /\ \E t \in Range(dimensions) : DocumentFrequency(vectors, t) = 3
    /\ wordMappingSchema # "undefined"

\* Number of documents of the batch with a word counting under term t.
RawDocumentFrequency(t) ==
    Cardinality({i \in 1..Len(batch) : t \in DOMAIN TermFrequencies(batch[i].content)})

\* Number of words of document i of the batch counting under term t.
RawTermFrequency(i, t) ==
    LET tf == TermFrequencies(batch[i].content)
    IN IF t \in DOMAIN tf THEN tf[t] ELSE Zero

\* The dimensions tfidf has gone through so far.
WeighedDimensions == {dimensions[j] : j \in 1..(dimIdx - 1)}

\* C12: while tfidf runs and when it returns, its input vector space still
\* holds the raw term counts of the batch; every weight written so far is
\* log(N / df) * tf with df and tf the raw document and term frequency of
\* the batch, and every key not yet weighed still holds its raw count.
C12_TfidfReadsRawCounts ==
    pc = "tfidf" =>
        /\ Len(vectors) = Len(batch)
        /\ Len(normalizedVectorSpace) = Len(batch)
        /\ \A i \in 1..Len(batch) :
               /\ vectors[i].vector = TermFrequencies(batch[i].content)
               /\ \A t \in DOMAIN normalizedVectorSpace[i].vector :
                      normalizedVectorSpace[i].vector[t] =
                          IF t \in WeighedDimensions
                          THEN Mul(LogRatio(Len(batch), RawDocumentFrequency(t)),
                                   RawTermFrequency(i, t))
                          ELSE RawTermFrequency(i, t)
               /\ WeighedDimensions \subseteq DOMAIN normalizedVectorSpace[i].vector

C12_Witness ==
    /\ TfidfDone
    /\ Len(dimensions) >= 2
    /\ \E i \in 1..Len(batch) : \E t \in DOMAIN vectors[i].vector :
           /\ vectors[i].vector[t] = FromInt(2)
           /\ normalizedVectorSpace[i].vector[t] \notin {Zero, FromInt(2)}
    /\ \E i \in 1..Len(batch) :
           DOMAIN vectors[i].vector # DOMAIN normalizedVectorSpace[i].vector

\* Whether sequence s is the beginning of sequence t.
IsPrefix(s, t) == Len(s) <= Len(t) /\ SubSeq(t, 1, Len(s)) = s

\* C13: every step of vectorization keeps the dimensions found so far and
\* only adds to them, and the step that ends vectorization leaves the
\* dimensions equal to the union of the key sets of all vectors of the batch,
\* each key being the word mapper's output for a raw word of its document.
C13_DictionaryGrowsToKeyUnion ==
    [][pc = "vectorize" =>
          /\ IsPrefix(dimensions, dimensions')
          /\ pc' = "weigh" =>
                 /\ Len(vectors') = Len(batch)
                 /\ Range(dimensions') =
                        UNION {DOMAIN vectors'[i].vector : i \in 1..Len(batch)}
                 /\ \A i \in 1..Len(batch) :
                        \A t \in DOMAIN vectors'[i].vector :
                            \E w \in Range(RawWords(batch[i].content)) :
                                t = ExpectedTerm(w)]_vars

C13_Witness ==
    /\ pc = "weigh"
    /\ wordMappingSchema = "noPunctuation"
    /\ Len(dimensions) >= 3
    /\ <<>> \in Range(dimensions)
    /\ \E w \in RawWordsOfBatch : w \notin Range(dimensions)
    /\ \E i \in 1..Len(vectors) : vectors[i].vector = <<>>

\* The sum of the whole-number counts a vector stores.
RECURSIVE SumCounts(_)
SumCounts(vector) ==
    IF DOMAIN vector = {} THEN 0
    ELSE LET t == CHOOSE x \in DOMAIN vector : TRUE
         IN (vector[t].v \div Scale)
                + SumCounts([x \in DOMAIN vector \ {t} |-> vector[x]])

\* Number of raw words of content that the word mapper sends to term t.
CountMapped(content, t) ==
    LET w == RawWords(content)
    IN Cardinality({j \in 1..Len(w) : ExpectedTerm(w[j]) = t})

\* C14: when vectorization is over, with any word mapper, the vector of every
\* document of the batch maps each term to the number of the document's raw
\* words that the mapper sends to it; every stored count is a whole number
\* >= 1, the counts add up to the number of raw words, a document with empty
\* or absent content has an empty vector, and no error was raised.
C14_VectorCountsMappedWords ==
    pc = "weigh" =>
        /\ error = ""
        /\ Len(vectors) = Len(batch)
        /\ \A i \in 1..Len(batch) :
               LET vec == vectors[i].vector
                   content == batch[i].content
               IN /\ \A t \in DOMAIN vec :
                         /\ vec[t].k = "fin"
                         /\ vec[t].v = Scale * CountMapped(content, t)
                         /\ vec[t].v >= Scale
                  /\ \A w \in Range(RawWords(content)) : ExpectedTerm(w) \in DOMAIN vec
                  /\ SumCounts(vec) = Len(RawWords(content))
                  /\ (~content.def \/ content.s = <<>>) => vec = <<>>

C14_Witness ==
    /\ pc = "weigh"
    /\ wordMappingSchema = "noPunctuation"
    /\ \E i \in 1..Len(batch) :
           /\ Cardinality(Range(RawWords(batch[i].content))) = 3
           /\ Cardinality(DOMAIN vectors[i].vector) = 2
           /\ vectors[i].vector[<<"a">>] = FromInt(2)
    /\ \E i \in 1..Len(batch) : ~batch[i].content.def /\ vectors[i].vector = <<>>
    /\ \E i \in 1..Len(batch) :
           /\ batch[i].content.def
           /\ batch[i].content.s # <<>>
           /\ vectors[i].vector # <<>>

-----------------------------------------------------------------------------
(* Properties of the ranking *)

\* The place in the collection of the document result[j] was made from.
CollectionIndex(j) ==
    CHOOSE f \in 1..Len(vectors) : vectors[f].meta = result[j].meta

\* C15: when query returns, any two returned documents with equal scores
\* are in the result in the order they have in the collection.
C15_TiesKeepCollectionOrder ==
    Returned =>
        \A i, j \in 1..Len(result) :
            (i < j /\ StrictEq(ScoreOfResult(i), ScoreOfResult(j)))
                => CollectionIndex(i) < CollectionIndex(j)

====
